---- MODULE Spec2Model ----
(***************************************************************************)
(* Model of kafka-logging-system: the LogEntry codec                       *)
(* (internal/models/log.go), the log consumer (cmd/consumer, here          *)
(* src/unnamed/part_000) and the log producer (cmd/producer, here          *)
(* src/unnamed/part_001), together with the part of the broker client      *)
(* (sarama consumer group / sync producer) that the two programs call.     *)
(***************************************************************************)
EXTENDS Integers, Sequences, FiniteSets, TLC

(***************************************************************************)
(* Go strings.  A Go string is a sequence of units; a unit is a run of     *)
(* plain ASCII text (k = "txt"), one character that encoding/json treats   *)
(* specially (k = "chr"), or, on the wire only, an escape sequence         *)
(* (k = "esc") or an RFC 3339 time text (k = "time").  All units are       *)
(* records of the same shape so that they can be compared.                 *)
(***************************************************************************)
Txt(s) == [k |-> "txt", v |-> s, y |-> 0, ns |-> 0]
Chr(c) == [k |-> "chr", v |-> c, y |-> 0, ns |-> 0]
Esc(c) == [k |-> "esc", v |-> c, y |-> 0, ns |-> 0]
TimeText(year, nsec) == [k |-> "time", v |-> "rfc3339", y |-> year, ns |-> nsec]

GoStr(s) == <<Txt(s)>>

\* models.LogLevel constants
DEBUG == GoStr("DEBUG")
INFO  == GoStr("INFO")
WARN  == GoStr("WARN")
ERROR == GoStr("ERROR")
FATAL == GoStr("FATAL")
LogLevels == {DEBUG, INFO, WARN, ERROR, FATAL}

\* time.Time: the instant (year and the rest of the instant, nsec) and whether
\* the value carries a monotonic clock reading, as every time.Now() does.
Time(year, nsec, mono) == [year |-> year, nsec |-> nsec, mono |-> mono]
ZeroTime == Time(1, 0, FALSE)

\* time.Time.Equal: the same instant, whatever the monotonic reading
TimeEqual(a, b) == a.year = b.year /\ a.nsec = b.nsec

LogEntry(ts, app, level, msg) ==
    [Timestamp |-> ts, Application |-> app, Level |-> level, Message |-> msg]
ZeroEntry == LogEntry(ZeroTime, <<>>, <<>>, <<>>)

(***************************************************************************)
(* The wire form: a JSON text as its sequence of tokens.                   *)
(*   "{" "}" ":" ","   punctuation                                         *)
(*   "str"             a complete string literal, body = its units         *)
(*   "num"             a complete value that is neither string nor null    *)
(*   "null"            the literal null                                    *)
(*   "cut"             a token that the end of input cut short             *)
(***************************************************************************)
Tok(t) == [t |-> t, body |-> <<>>]
StrTok(body) == [t |-> "str", body |-> body]
LB == Tok("{")
RB == Tok("}")
COLON == Tok(":")
COMMA == Tok(",")
NumTok == Tok("num")
NullTok == Tok("null")
CutTok == Tok("cut")

\* encoding/json string encoding: quotes are escaped, '<' is HTML-escaped,
\* a byte that is not valid UTF-8 is replaced by U+FFFD
EncodeUnit(u) ==
    IF u.k = "chr"
    THEN CASE u.v = "quote" -> Esc("\\\"")
           [] u.v = "lt"    -> Esc("\\u003c")
           [] u.v = "bad"   -> Esc("\\ufffd")
           [] OTHER         -> u
    ELSE u

EncodeString(s) == [i \in 1..Len(s) |-> EncodeUnit(s[i])]

KnownEscapes == {"\\\"", "\\u003c", "\\ufffd"}

\* encoding/json string decoding (unquote): escapes are resolved, a byte
\* that is not valid UTF-8 becomes U+FFFD
DecodeUnit(u) ==
    CASE u.k = "esc" /\ u.v = "\\\""   -> Chr("quote")
      [] u.k = "esc" /\ u.v = "\\u003c" -> Chr("lt")
      [] u.k = "esc" /\ u.v = "\\ufffd" -> Chr("fffd")
      [] u.k = "chr" /\ u.v = "bad"     -> Chr("fffd")
      [] OTHER                          -> u

DecodeString(body) == [i \in 1..Len(body) |-> DecodeUnit(body[i])]

\* time.Time.MarshalJSON: RFC 3339 with nanoseconds; only years 0..9999
TimeMarshalErr(t) == t.year < 0 \/ t.year > 9999

\* time.Time.UnmarshalJSON: the literal must be one RFC 3339 text
TimeParseOk(body) == Len(body) = 1 /\ body[1].k = "time"
TimeParse(body) == Time(body[1].y, body[1].ns, FALSE)

Member(key, val) == <<StrTok(GoStr(key)), COLON, val>>

\* LogEntry.ToJson = json.Marshal(l): the four fields in declaration order
\* under their json tags; (nil, err) when the timestamp cannot be encoded
ToJsonNoEscape(l) ==
    IF TimeMarshalErr(l.Timestamp)
    THEN [err |-> "marshal", data |-> <<>>]
    ELSE [err |-> "",
          data |-> <<LB>>
            \o Member("timestamp",
                      StrTok(<<TimeText(l.Timestamp.year, l.Timestamp.nsec)>>))
            \o <<COMMA>> \o Member("application", StrTok(l.Application))
            \o <<COMMA>> \o Member("level", StrTok(l.Level))
            \o <<COMMA>> \o Member("message", StrTok(l.Message))
            \o <<RB>>]

ToJson(l) ==
    IF TimeMarshalErr(l.Timestamp)
    THEN [err |-> "marshal", data |-> <<>>]
    ELSE [err |-> "",
          data |-> <<LB>>
            \o Member("timestamp",
                      StrTok(<<TimeText(l.Timestamp.year, l.Timestamp.nsec)>>))
            \o <<COMMA>> \o Member("application", StrTok(EncodeString(l.Application)))
            \o <<COMMA>> \o Member("level", StrTok(EncodeString(l.Level)))
            \o <<COMMA>> \o Member("message", StrTok(EncodeString(l.Message)))
            \o <<RB>>]

\* a string literal the scanner accepts: every escape in it is a known one
ValidStr(tok) ==
    /\ tok.t = "str"
    /\ \A i \in 1..Len(tok.body) :
          /\ tok.body[i].k = "esc" => tok.body[i].v \in KnownEscapes
          /\ ~(tok.body[i].k = "chr" /\ tok.body[i].v = "quote")

ValidValue(tok) == ValidStr(tok) \/ tok.t \in {"num", "null"}

\* number of members of a token sequence shaped like an object, -1 if none
MemberCount(data) ==
    LET n == Len(data) IN
    IF n = 2 THEN 0
    ELSE IF n > 2 /\ (n - 1) % 4 = 0 THEN (n - 1) \div 4
    ELSE -1

\* json.checkValid: the whole input is one JSON value
SyntaxOk(data) ==
    IF Len(data) = 1 THEN ValidValue(data[1])
    ELSE /\ Len(data) >= 2
         /\ data[1] = LB
         /\ data[Len(data)] = RB
         /\ MemberCount(data) >= 0
         /\ \A i \in 0..(MemberCount(data) - 1) :
               /\ ValidStr(data[2 + 4 * i])
               /\ data[3 + 4 * i] = COLON
               /\ ValidValue(data[4 + 4 * i])
               /\ i < MemberCount(data) - 1 => data[5 + 4 * i] = COMMA

\* the struct field a key names: the json tag, matched case-insensitively
FieldOf(key) ==
    CASE key \in {GoStr("timestamp"), GoStr("Timestamp")}     -> "Timestamp"
      [] key \in {GoStr("application"), GoStr("Application")} -> "Application"
      [] key \in {GoStr("level"), GoStr("LEVEL")}             -> "Level"
      [] key \in {GoStr("message"), GoStr("Message")}         -> "Message"
      [] OTHER                                                -> ""

\* decoding one object member into the entry (decodeState.object): r is the
\* result so far, [entry, err, stop]
StoreMember(r, keyTok, valTok) ==
    LET f == FieldOf(DecodeString(keyTok.body)) IN
    IF r.stop \/ f = "" \/ valTok.t = "null" THEN r
    ELSE IF f = "Timestamp"
    THEN IF valTok.t = "str" /\ TimeParseOk(valTok.body)
         THEN [r EXCEPT !.entry.Timestamp = TimeParse(valTok.body)]
         ELSE [r EXCEPT !.err = IF r.err = "" THEN "time" ELSE r.err,
                        !.stop = TRUE]
    ELSE IF valTok.t = "str"
    THEN [r EXCEPT !.entry = [@ EXCEPT ![f] = DecodeString(valTok.body)]]
    ELSE [r EXCEPT !.err = IF r.err = "" THEN "type" ELSE r.err]

RECURSIVE StoreMembers(_, _, _)
StoreMembers(r, data, i) ==
    IF i >= MemberCount(data) THEN r
    ELSE StoreMembers(StoreMember(r, data[2 + 4 * i], data[4 + 4 * i]), data, i + 1)

\* models.FromJson = json.Unmarshal(data, &entry); returns (&entry, err):
\* the entry is returned whatever err is
FromJson(data) ==
    LET start == [entry |-> ZeroEntry, err |-> "", stop |-> FALSE] IN
    IF ~SyntaxOk(data) THEN [entry |-> ZeroEntry, err |-> "syntax"]
    ELSE IF Len(data) = 1
    THEN [entry |-> ZeroEntry, err |-> IF data[1].t = "null" THEN "" ELSE "type"]
    ELSE LET r == StoreMembers(start, data, 0) IN
         [entry |-> r.entry, err |-> r.err]

(***************************************************************************)
(* State.                                                                  *)
(***************************************************************************)
VARIABLES
    \* the codec on its own
    cPc,        \* "idle", "generate", "entry", "wire", "marshalErr", "decoded"
    cEntry,     \* the LogEntry handed to ToJson
    cData,      \* the bytes handed to FromJson
    cTamper,    \* what happened to the bytes between ToJson and FromJson
    cResult,    \* what FromJson returned: [entry, err]
    \* the broker: topic raw-logs and the offsets of log-consumer-group
    log,        \* per partition, the records: [value, key, ts]
    committed,  \* per partition, the committed offset (next one to deliver)
    generation, \* the generation of the group: sessions established so far
    \* the producer processes
    appName,    \* per producer, LogProducer.appName (currentApp)
    prodPc,     \* per producer: "loop", "sending", "exited"
    prodMsg,    \* per producer, the entry whose message is with SendMessage (or <<>>)
    prodClosed, \* per producer, producer.Close() has been called
    sigChan,    \* per producer, signals buffered in sigChan (0 or 1)
    ticks,      \* per producer, ticks taken from ticker.C so far
    prodOut,    \* per producer, the lines it printed
    \* the consumer process
    procState,  \* "running", "panicked", "killed", "exited"
    epoch,      \* how many times the consumer has been restarted
    mainPc,     \* main: "loadReady", "awaitReady", "awaitSig", "wgWait", "close", "done"
    mainCh,     \* the channel main took from consumer.ready (0: none yet)
    notify,     \* signal.Notify(sigterm, ...) is in place
    sigterm,    \* signals buffered in sigterm (0 or 1)
    goPc,       \* the consume goroutine: "consume", "returned", "panicking", "done"
    consumeErr, \* err as set by client.Consume: "" is nil
    ready,      \* consumer.ready: the id of the channel it holds
    closedCh,   \* the ids of the channels that have been closed
    chans,      \* channels made so far (ids 1..chans)
    wg,         \* the WaitGroup counter
    clientOpen, \* the consumer group client has not been closed
    sessState,  \* the session inside client.Consume: "none", "joining", "running"
    sessCtxDone,\* session.Context() is done
    claimPc,    \* per partition, ConsumeClaim: "idle", "select", "process", "printAt",
                \* "println", "mark", "returned"
    claimMsg,   \* per partition, the offset of the message in hand
    claimStop,  \* per partition, whether the shutdown had begun when it was pulled
    claimPos,   \* per partition, the next offset claim.Messages() delivers
    marked,     \* per partition, the offset marked in the session (not yet committed)
    hist,       \* per partition, what ConsumeClaim did: [ev, off, ep, late, line]
    curLine,    \* standard output: what was written since the last newline
    sigSeen     \* main has received the shutdown signal from sigterm

codecVars == <<cPc, cEntry, cData, cTamper, cResult>>
brokerVars == <<log, committed, generation>>
prodVars == <<appName, prodPc, prodMsg, prodClosed, sigChan, ticks, prodOut>>
mainVars == <<mainPc, mainCh, notify, sigterm, sigSeen, wg, clientOpen>>
goVars == <<goPc, consumeErr, ready, closedCh, chans>>
sessVars == <<sessState, sessCtxDone, claimPc, claimMsg, claimStop, claimPos, marked>>
consVars == <<procState, epoch, mainVars, goVars, sessVars, hist, curLine>>
pipeVars == <<brokerVars, prodVars, consVars>>
vars == <<codecVars, pipeVars>>

(***************************************************************************)
(* The codec on its own: an entry is serialized, the bytes are delivered   *)
(* as they are, truncated, stripped of a field or given another level,     *)
(* and then deserialized.                                                  *)
(***************************************************************************)
MaxStrLen == 1

StrUnits == {Txt("a"), Chr("quote"), Chr("lt"), Chr("bad")}
Strings == UNION {[1..n -> StrUnits] : n \in 0..MaxStrLen}
\* strings that are valid UTF-8
ValidUTF8(s) == \A i \in 1..Len(s) : ~(s[i].k = "chr" /\ s[i].v = "bad")

CodecYears == {-1, 2025, 10000}
CodecTimes == {Time(y, n, m) : y \in CodecYears, n \in {0, 1}, m \in BOOLEAN}

\* the valid entries: any timestamp, any two strings, one of the five levels
CodecEntries ==
    {LogEntry(ts, app, lv, msg) :
        ts \in CodecTimes, app \in Strings, lv \in LogLevels, msg \in Strings}

UnknownLevels == {GoStr("TRACE"), GoStr("info"), <<>>}

CodecIdle ==
    /\ cPc = "idle"
    /\ cEntry = ZeroEntry
    /\ cData = <<>>
    /\ cTamper = "none"
    /\ cResult = [entry |-> ZeroEntry, err |-> ""]

CodecStart ==
    /\ cPc = "entry"
    /\ cEntry \in CodecEntries
    /\ cData = <<>>
    /\ cTamper = "none"
    /\ cResult = [entry |-> ZeroEntry, err |-> ""]

Serialize ==
    /\ cPc = "entry"
    /\ LET r == ToJson(cEntry) IN
       /\ cPc' = IF r.err = "" THEN "wire" ELSE "marshalErr"
       /\ cData' = r.data
    /\ UNCHANGED <<cEntry, cTamper, cResult, pipeVars>>

\* the first n tokens, and the next one cut short when mid
Truncate ==
    /\ cPc = "wire"
    /\ cTamper = "none"
    /\ \E n \in 0..(Len(cData) - 1), mid \in BOOLEAN :
          /\ mid => cData[n + 1].t = "str"
          /\ cData' = SubSeq(cData, 1, n) \o (IF mid THEN <<CutTok>> ELSE <<>>)
    /\ cTamper' = "truncated"
    /\ UNCHANGED <<cPc, cEntry, cResult, pipeVars>>

\* the object without its i-th member (0-based), still one JSON object
WithoutMember(data, i) ==
    IF MemberCount(data) = 1 THEN <<LB, RB>>
    ELSE IF i = 0 THEN <<LB>> \o SubSeq(data, 6, Len(data))
    ELSE SubSeq(data, 1, 4 * i) \o SubSeq(data, 5 + 4 * i, Len(data))

DropField ==
    /\ cPc = "wire"
    /\ cTamper \in {"none", "fieldMissing"}
    /\ MemberCount(cData) >= 1
    /\ \E i \in 0..(MemberCount(cData) - 1) : cData' = WithoutMember(cData, i)
    /\ cTamper' = "fieldMissing"
    /\ UNCHANGED <<cPc, cEntry, cResult, pipeVars>>

\* the same record with a level string outside the five (member 2 is level)
SetLevel ==
    /\ cPc = "wire"
    /\ cTamper = "none"
    /\ \E lv \in UnknownLevels :
          cData' = [cData EXCEPT ![12] = StrTok(EncodeString(lv))]
    /\ cTamper' = "unknownLevel"
    /\ UNCHANGED <<cPc, cEntry, cResult, pipeVars>>

Deserialize ==
    /\ cPc = "wire"
    /\ cResult' = FromJson(cData)
    /\ cPc' = "decoded"
    /\ UNCHANGED <<cEntry, cData, cTamper, pipeVars>>

(***************************************************************************)
(* The producer (cmd/producer).                                            *)
(***************************************************************************)
MaxRecords == 2
MaxTicks == 2
MaxIntn == 0
MaxSessions == 2
MaxRestarts == 1

\* two producer processes; the topic has two partitions
Producers == {1, 2}
Partitions == {0, 1}

\* main: appNames, of which the producers of the model draw the first two
appNames == <<GoStr("userService"), GoStr("DatabaseService"),
              GoStr("AuthService"), GoStr("PaymentService")>>
AppNames == {appNames[1], appNames[2]}

infoMessages == <<GoStr("User logged in successfully"),
                  GoStr("data Retrieved successfully"),
                  GoStr("Service Started"),
                  GoStr("Request completed")>>
warnMessages == <<GoStr("Slow Database query"),
                  GoStr("High Memory usage"),
                  GoStr("Connection Pool almost full"),
                  GoStr("Password failed for user"),
                  GoStr("Unauthenticated user trying to access data")>>
errorMessages == <<GoStr("Database Connection Failed"),
                   GoStr("Invalid user credentials"),
                   GoStr("Backup Database not responding"),
                   GoStr("Service Unavailable"),
                   GoStr("Request Timeout")>>

\* rand.Float32() in hundredths: one value on each side of every threshold
LevelRands == {0, 59, 60, 79, 80, 94, 95, 99}
\* the random numbers behind rand.Intn(n), which returns r % n
IntnRands == 0..MaxIntn
\* time.Now(): a wall clock reading with a monotonic reading
Nows == {Time(2025, 0, TRUE)}

\* generateLogEntry with models.FATAL in the default case
generateLogEntryFatal(app, levelRand, r, now) ==
    CASE levelRand < 60 ->
            LogEntry(now, app, INFO, infoMessages[(r % Len(infoMessages)) + 1])
      [] levelRand >= 60 /\ levelRand < 80 ->
            LogEntry(now, app, WARN, warnMessages[(r % Len(warnMessages)) + 1])
      [] levelRand >= 80 /\ levelRand < 95 ->
            LogEntry(now, app, ERROR, errorMessages[(r % Len(errorMessages)) + 1])
      [] OTHER ->
            LogEntry(now, app, FATAL, GoStr("debug trace information"))

\* generateLogEntry, given what the random source and the clock return
generateLogEntry(app, levelRand, r, now) ==
    CASE levelRand < 60 ->
            LogEntry(now, app, INFO, infoMessages[(r % Len(infoMessages)) + 1])
      [] levelRand >= 60 /\ levelRand < 80 ->
            LogEntry(now, app, WARN, warnMessages[(r % Len(warnMessages)) + 1])
      [] levelRand >= 80 /\ levelRand < 95 ->
            LogEntry(now, app, ERROR, errorMessages[(r % Len(errorMessages)) + 1])
      [] OTHER ->
            LogEntry(now, app, DEBUG, GoStr("debug trace information"))

\* the partition the client's hash partitioner gives a key
AppIndex(app) == CHOOSE i \in 1..Len(appNames) : appNames[i] = app
Partitioner(key) == (AppIndex(key) - 1) % Cardinality(Partitions)

RECURSIVE SumLen(_, _)
SumLen(f, S) == IF S = {} THEN 0
                ELSE LET x == CHOOSE y \in S : TRUE IN Len(f[x]) + SumLen(f, S \ {x})
\* the records of the topic, all partitions together
TotalRecords == SumLen(log, Partitions)

\* a record of the topic: the message as sent
Record(value, key, ts) == [value |-> value, key |-> key, ts |-> ts]

RECURSIVE SumOf(_, _)
SumOf(f, S) == IF S = {} THEN 0
               ELSE LET x == CHOOSE y \in S : TRUE IN f[x] + SumOf(f, S \ {x})
\* the ticks all producers have taken
TotalTicks == SumOf(ticks, Producers)

\* a line the producer prints; late: the interrupt had been delivered
\* before the line was printed
ProdLine(i, kind, p, o, level, msg) ==
    [kind |-> kind, p |-> p, o |-> o, level |-> level, msg |-> msg,
     late |-> sigChan[i] = 1]

\* one tick of the loop in main, sendLog up to SendMessage: the entry is
\* generated and serialized and the message is handed to the client, which
\* blocks; if ToJson fails, sendLog returns and main prints the error
ProducerTick(i) ==
    /\ prodPc[i] = "loop"
    /\ TotalTicks < MaxTicks
    /\ \E levelRand \in LevelRands, r \in IntnRands, now \in Nows :
          LET logentry == generateLogEntry(appName[i], levelRand, r, now)
              json == ToJson(logentry)
          IN  IF json.err # ""
              THEN /\ prodOut' = [prodOut EXCEPT ![i] =
                          Append(@, ProdLine(i, "marshalError", -1, -1, <<>>, <<>>))]
                   /\ UNCHANGED <<prodPc, prodMsg>>
              ELSE /\ prodMsg' = [prodMsg EXCEPT ![i] = <<logentry>>]
                   /\ prodPc' = [prodPc EXCEPT ![i] = "sending"]
                   /\ prodOut' = prodOut
    /\ ticks' = [ticks EXCEPT ![i] = @ + 1]
    /\ UNCHANGED <<brokerVars, appName, prodClosed, sigChan, consVars, codecVars>>

\* sendLog with Key: sarama.StringEncoder(logentry.Level)
ProducerSentKeyedByLevel(i) ==
    /\ prodPc[i] = "sending"
    /\ \E ack \in BOOLEAN :
          LET logentry == prodMsg[i][1]
              json == ToJson(logentry)
              partition == Partitioner(logentry.Application)
              offset == Len(log[partition])
          IN  /\ ack => TotalRecords < MaxRecords
              /\ IF ack
                 THEN /\ log' = [log EXCEPT ![partition] =
                             Append(@, Record(json.data, logentry.Level, logentry.Timestamp))]
                      /\ prodOut' = [prodOut EXCEPT ![i] =
                             Append(@, ProdLine(i, "sent", partition, offset,
                                                logentry.Level, logentry.Message))]
                 ELSE /\ log' = log
                      /\ prodOut' = [prodOut EXCEPT ![i] =
                             Append(@, ProdLine(i, "sendError", -1, -1, <<>>, <<>>))]
    /\ prodMsg' = [prodMsg EXCEPT ![i] = <<>>]
    /\ prodPc' = [prodPc EXCEPT ![i] = "loop"]
    /\ UNCHANGED <<committed, generation, appName, prodClosed, sigChan, ticks, consVars,
                   codecVars>>

\* main returning when sendLog has failed
ProducerSentStopsOnError(i) ==
    /\ prodPc[i] = "sending"
    /\ \E ack \in BOOLEAN :
          LET logentry == prodMsg[i][1]
              json == ToJson(logentry)
              key == logentry.Application
              partition == Partitioner(key)
              offset == Len(log[partition])
          IN  /\ ack => TotalRecords < MaxRecords
              /\ IF ack
                 THEN /\ log' = [log EXCEPT ![partition] =
                             Append(@, Record(json.data, key, logentry.Timestamp))]
                      /\ prodOut' = [prodOut EXCEPT ![i] =
                             Append(@, ProdLine(i, "sent", partition, offset,
                                                logentry.Level, logentry.Message))]
                      /\ prodPc' = [prodPc EXCEPT ![i] = "loop"]
                 ELSE /\ log' = log
                      /\ prodOut' = [prodOut EXCEPT ![i] =
                             Append(@, ProdLine(i, "sendError", -1, -1, <<>>, <<>>))]
                      /\ prodPc' = [prodPc EXCEPT ![i] = "exited"]
    /\ prodMsg' = [prodMsg EXCEPT ![i] = <<>>]
    /\ UNCHANGED <<committed, generation, appName, prodClosed, sigChan, ticks, consVars,
                   codecVars>>

\* SendMessage returns: the record is in the partition of its key and the
\* "Sent" line is printed, or the client gives up after its retries and main
\* prints the error; either way the loop goes on
ProducerSent(i) ==
    /\ prodPc[i] = "sending"
    /\ \E ack \in BOOLEAN :
          LET logentry == prodMsg[i][1]
              json == ToJson(logentry)
              key == logentry.Application
              partition == Partitioner(key)
              offset == Len(log[partition])
          IN  /\ ack => TotalRecords < MaxRecords
              /\ IF ack
                 THEN /\ log' = [log EXCEPT ![partition] =
                             Append(@, Record(json.data, key, logentry.Timestamp))]
                      /\ prodOut' = [prodOut EXCEPT ![i] =
                             Append(@, ProdLine(i, "sent", partition, offset,
                                                logentry.Level, logentry.Message))]
                 ELSE /\ log' = log
                      /\ prodOut' = [prodOut EXCEPT ![i] =
                             Append(@, ProdLine(i, "sendError", -1, -1, <<>>, <<>>))]
    /\ prodMsg' = [prodMsg EXCEPT ![i] = <<>>]
    /\ prodPc' = [prodPc EXCEPT ![i] = "loop"]
    /\ UNCHANGED <<committed, generation, appName, prodClosed, sigChan, ticks, consVars,
                   codecVars>>

\* os.Interrupt reaches the producer: signal.Notify buffers one signal
ProducerInterrupt(i) ==
    /\ prodPc[i] \in {"loop", "sending"}
    /\ sigChan[i] = 0
    /\ sigChan' = [sigChan EXCEPT ![i] = 1]
    /\ UNCHANGED <<brokerVars, appName, prodPc, prodMsg, prodClosed, ticks, prodOut,
                   consVars, codecVars>>

\* case <-sigChan ending the process with os.Exit instead of return: the
\* deferred calls do not run
ProducerShutdownNoClose(i) ==
    /\ prodPc[i] = "loop"
    /\ sigChan[i] = 1
    /\ prodOut' = [prodOut EXCEPT ![i] = Append(@, ProdLine(i, "shutdown", -1, -1, <<>>, <<>>))]
    /\ sigChan' = [sigChan EXCEPT ![i] = 0]
    /\ prodPc' = [prodPc EXCEPT ![i] = "exited"]
    /\ UNCHANGED <<brokerVars, appName, prodMsg, prodClosed, ticks, consVars, codecVars>>

\* case <-sigChan: the line is printed and main returns, which runs the
\* deferred ticker.Stop() and producer.Close()
ProducerShutdown(i) ==
    /\ prodPc[i] = "loop"
    /\ sigChan[i] = 1
    /\ prodOut' = [prodOut EXCEPT ![i] = Append(@, ProdLine(i, "shutdown", -1, -1, <<>>, <<>>))]
    /\ sigChan' = [sigChan EXCEPT ![i] = 0]
    /\ prodClosed' = [prodClosed EXCEPT ![i] = TRUE]
    /\ prodPc' = [prodPc EXCEPT ![i] = "exited"]
    /\ UNCHANGED <<brokerVars, appName, prodMsg, ticks, consVars, codecVars>>

(***************************************************************************)
(* generateLogEntry on its own: an entry is generated from every value of  *)
(* the random source, for every application, then serialized and read back. *)
(***************************************************************************)
MaxGenRand == 5

\* rand.Float32() in hundredths, all of them
GenLevelRands == 0..99
\* the random numbers behind rand.Intn(n): enough for every index of a pool
GenRands == 0..MaxGenRand
GenTimes == {Time(2025, 0, TRUE), Time(2025, 1, TRUE)}
GenApps == {appNames[k] : k \in 1..Len(appNames)}

Generate ==
    /\ cPc = "generate"
    /\ \E app \in GenApps, levelRand \in GenLevelRands, r \in GenRands, now \in GenTimes :
          cEntry' = generateLogEntry(app, levelRand, r, now)
    /\ cPc' = "entry"
    /\ UNCHANGED <<cData, cTamper, cResult, pipeVars>>

(***************************************************************************)
(* What the topic can hold when the consumer reads it: records that        *)
(* producers of this program sent, and records of other clients of the     *)
(* topic, whose bytes are whatever they wrote.                             *)
(***************************************************************************)
\* a record as sendLog sends it for app
SentRecord(app) ==
    LET logentry == generateLogEntry(app, 0, 0, Time(2025, 0, TRUE)) IN
    Record(ToJson(logentry).data, logentry.Application, logentry.Timestamp)

ForeignEntry == LogEntry(Time(2025, 1, FALSE), GoStr("ext"), INFO, GoStr("m"))
ForeignPayloads ==
    LET d == ToJson(ForeignEntry).data IN
    { SubSeq(d, 1, 8),                                              \* truncated
      [d EXCEPT ![12] = StrTok(GoStr("TRACE"))] }                   \* unknown level

\* the records partition p can hold
TopicRecords(p) ==
    {SentRecord(app) : app \in {a \in AppNames : Partitioner(a) = p}}
    \cup {Record(d, <<>>, ZeroTime) : d \in ForeignPayloads}

\* the topics the consumer can find when it starts
InitialLogs ==
    {l \in [Partitions -> UNION {[1..n -> UNION {TopicRecords(p) : p \in Partitions}]
                                    : n \in 0..MaxRecords}] :
        /\ SumLen(l, Partitions) <= MaxRecords
        /\ \A p \in Partitions : \A n \in 1..Len(l[p]) : l[p][n] \in TopicRecords(p)}

\* another client appends a record to the topic
ForeignPublish ==
    /\ TotalRecords < MaxRecords
    /\ \E p \in Partitions, d \in ForeignPayloads :
          log' = [log EXCEPT ![p] = Append(@, Record(d, <<>>, ZeroTime))]
    /\ UNCHANGED <<committed, generation, prodVars, consVars, codecVars>>

(***************************************************************************)
(* The consumer (cmd/consumer).                                            *)
(***************************************************************************)
\* context.Background().Err(): the background context is never cancelled
BackgroundErr == ""

Line(color, ts, app, level, msg, p, o) ==
    [color |-> color, ts |-> ts, app |-> app, level |-> level, msg |-> msg,
     p |-> p, o |-> o]
NoLine == Line("", 0, <<>>, <<>>, <<>>, -1, -1)

\* displayLog: the colour of the level (reset when the map has none), the
\* entry's fields, the partition and the offset, as one line
displayLog(entry, partition, offset) ==
    LET color == CASE entry.Level = DEBUG -> "cyan"
                   [] entry.Level = INFO  -> "green"
                   [] entry.Level = WARN  -> "yellow"
                   [] entry.Level = ERROR -> "red"
                   [] entry.Level = FATAL -> "magenta"
                   [] OTHER               -> "reset"
    IN  Line(color, entry.Timestamp.nsec, entry.Application, entry.Level,
             entry.Message, partition, offset)

\* an entry of hist: the record at offset off was pulled ("pull"), rendered
\* ("render"), found malformed ("error") or marked ("mark"), in which run
\* of the process (ep),
\* what was printed (line), and for "render" and "error" whether the shutdown
\* signal was received by main or the session context became done after the
\* record was pulled (late)
Event(ev, off, late, line) ==
    [ev |-> ev, off |-> off, ep |-> epoch, late |-> late, line |-> line]

\* main has received the shutdown signal, or the session context is done
Stopping == sigSeen \/ sessCtxDone

\* proccessLogMessage without the return after the error line: displayLog
\* gets the entry also when FromJson has failed
proccessLogMessageNoReturn(p, off) ==
    LET r == FromJson(log[p][off + 1].value) IN
    Event("render", off, Stopping /\ ~claimStop[p], displayLog(r.entry, p, off))

\* proccessLogMessage: what it prints for the record at offset off of p
proccessLogMessage(p, off) ==
    LET r == FromJson(log[p][off + 1].value) IN
    IF r.err # ""
    THEN Event("error", off, Stopping /\ ~claimStop[p], NoLine)
    ELSE Event("render", off, Stopping /\ ~claimStop[p], displayLog(r.entry, p, off))

\* the process has gone: nothing of its memory is left
Gone(how) ==
    /\ procState' = how
    /\ mainPc' = "done"
    /\ mainCh' = 0
    /\ notify' = FALSE
    /\ sigterm' = 0
    /\ sigSeen' = FALSE
    /\ wg' = 0
    /\ goPc' = "done"
    /\ consumeErr' = ""
    /\ ready' = 0
    /\ closedCh' = {}
    /\ chans' = 0
    /\ sessState' = "none"
    /\ sessCtxDone' = FALSE
    /\ claimPc' = [p \in Partitions |-> "idle"]
    /\ claimMsg' = [p \in Partitions |-> 0]
    /\ claimStop' = [p \in Partitions |-> FALSE]
    /\ claimPos' = [p \in Partitions |-> 0]
    /\ marked' = [p \in Partitions |-> 0]

\* main up to the start of the goroutine: the client exists, wg.Add(1),
\* consumer.ready = make(chan bool), the goroutine is about to call Consume
Started ==
    /\ procState' = "running"
    /\ mainPc' = "loadReady"
    /\ mainCh' = 0
    /\ notify' = FALSE
    /\ sigterm' = 0
    /\ sigSeen' = FALSE
    /\ wg' = 1
    /\ clientOpen' = TRUE
    /\ goPc' = "consume"
    /\ consumeErr' = ""
    /\ ready' = 1
    /\ closedCh' = {}
    /\ chans' = 1
    /\ sessState' = "joining"
    /\ sessCtxDone' = FALSE
    /\ claimPc' = [p \in Partitions |-> "idle"]
    /\ claimMsg' = [p \in Partitions |-> 0]
    /\ claimStop' = [p \in Partitions |-> FALSE]
    /\ claimPos' = [p \in Partitions |-> 0]
    /\ marked' = [p \in Partitions |-> 0]

\* Setup, as the client calls it when a session is established and before it
\* starts ConsumeClaim for every claimed partition at the committed offset
\* (the oldest, 0, when the group has none): close(consumer.ready)
Setup ==
    /\ procState = "running"
    /\ goPc = "consume"
    /\ sessState = "joining"
    /\ generation < MaxSessions
    /\ IF ready \in closedCh
       THEN /\ Gone("panicked")
            /\ UNCHANGED <<clientOpen, generation>>
       ELSE /\ closedCh' = closedCh \cup {ready}
            /\ sessState' = "running"
            /\ generation' = generation + 1
            /\ sessCtxDone' = FALSE
            /\ claimPc' = [p \in Partitions |-> "select"]
            /\ claimPos' = committed
            /\ marked' = committed
            /\ UNCHANGED <<procState, mainVars, goPc, consumeErr, ready, chans, claimMsg, claimStop>>
    /\ UNCHANGED <<log, committed, prodVars, epoch, hist, curLine, codecVars>>

\* client.Consume fails before a session exists
ConsumeFails ==
    /\ procState = "running"
    /\ goPc = "consume"
    /\ sessState = "joining"
    /\ sessState' = "none"
    /\ goPc' = "returned"
    /\ consumeErr' = "err"
    /\ UNCHANGED <<brokerVars, prodVars, procState, epoch, mainVars, ready, closedCh,
                   chans, sessCtxDone, claimPc, claimMsg, claimStop, claimPos, marked,
                   hist, curLine, codecVars>>

\* the session ends on the broker's side (a rebalance, a lost heartbeat):
\* the client cancels the session context
SessionEnd ==
    /\ procState = "running"
    /\ sessState = "running"
    /\ ~sessCtxDone
    /\ sessCtxDone' = TRUE
    /\ UNCHANGED <<brokerVars, prodVars, procState, epoch, mainVars, goVars, sessState,
                   claimPc, claimMsg, claimStop, claimPos, marked, hist, curLine, codecVars>>

\* the client's periodic commit of the marked offsets (auto-commit is on in
\* sarama.NewConfig())
AutoCommit ==
    /\ procState = "running"
    /\ sessState = "running"
    /\ marked # committed
    /\ committed' = marked
    /\ UNCHANGED <<log, generation, prodVars, consVars, codecVars>>

\* ConsumeClaim: the message is taken from claim.Messages() and marked at
\* once, before proccessLogMessage
ClaimPullMarksFirst(p) ==
    /\ procState = "running"
    /\ sessState = "running"
    /\ claimPc[p] = "select"
    /\ claimPos[p] < Len(log[p])
    /\ claimMsg' = [claimMsg EXCEPT ![p] = claimPos[p]]
    /\ claimStop' = [claimStop EXCEPT ![p] = Stopping]
    /\ claimPos' = [claimPos EXCEPT ![p] = @ + 1]
    /\ claimPc' = [claimPc EXCEPT ![p] = "process"]
    /\ marked' = [marked EXCEPT ![p] = claimPos[p] + 1]
    /\ hist' = [hist EXCEPT ![p] = Append(@, Event("pull", claimPos[p], FALSE, NoLine))]
    /\ UNCHANGED <<brokerVars, prodVars, procState, epoch, mainVars, goVars, sessState,
                   sessCtxDone, curLine, codecVars>>

\* ConsumeClaim, case message := <-claim.Messages() with a message
ClaimPull(p) ==
    /\ procState = "running"
    /\ sessState = "running"
    /\ claimPc[p] = "select"
    /\ claimPos[p] < Len(log[p])
    /\ claimMsg' = [claimMsg EXCEPT ![p] = claimPos[p]]
    /\ claimStop' = [claimStop EXCEPT ![p] = Stopping]
    /\ claimPos' = [claimPos EXCEPT ![p] = @ + 1]
    /\ claimPc' = [claimPc EXCEPT ![p] = "process"]
    /\ hist' = [hist EXCEPT ![p] = Append(@, Event("pull", claimPos[p], FALSE, NoLine))]
    /\ UNCHANGED <<brokerVars, prodVars, procState, epoch, mainVars, goVars, sessState,
                   sessCtxDone, marked, curLine, codecVars>>

\* one write to standard output: which part of which record's line it is
\* ("entry": colour, time, application, level, message; "at": partition and
\* offset; "error": the error line)
Chunk(part, p, o) == [part |-> part, p |-> p, o |-> o]

\* ConsumeClaim: consumer.proccessLogMessage(message) up to its first write:
\* the error line (one Println, which ends the line that standard output is
\* in; then back in ConsumeClaim), or the first Printf of displayLog
ClaimProcess(p) ==
    /\ procState = "running"
    /\ claimPc[p] = "process"
    /\ LET e == proccessLogMessage(p, claimMsg[p]) IN
       IF e.ev = "error"
       THEN /\ hist' = [hist EXCEPT ![p] = Append(@, e)]
            /\ curLine' = <<>>
            /\ claimPc' = [claimPc EXCEPT ![p] = "mark"]
       ELSE /\ curLine' = Append(curLine, Chunk("entry", p, claimMsg[p]))
            /\ claimPc' = [claimPc EXCEPT ![p] = "printAt"]
            /\ hist' = hist
    /\ UNCHANGED <<brokerVars, prodVars, procState, epoch, mainVars, goVars, sessState,
                   sessCtxDone, claimMsg, claimStop, claimPos, marked, codecVars>>

\* displayLog: fmt.Printf(" (p:%d, o:%d)", partition, offset)
ClaimPrintAt(p) ==
    /\ procState = "running"
    /\ claimPc[p] = "printAt"
    /\ curLine' = Append(curLine, Chunk("at", p, claimMsg[p]))
    /\ claimPc' = [claimPc EXCEPT ![p] = "println"]
    /\ UNCHANGED <<brokerVars, prodVars, procState, epoch, mainVars, goVars, sessState,
                   sessCtxDone, claimMsg, claimStop, claimPos, marked, hist, codecVars>>

\* displayLog: fmt.Println(), which ends the line; the record is rendered
ClaimPrintln(p) ==
    /\ procState = "running"
    /\ claimPc[p] = "println"
    /\ curLine' = <<>>
    /\ hist' = [hist EXCEPT ![p] = Append(@, proccessLogMessage(p, claimMsg[p]))]
    /\ claimPc' = [claimPc EXCEPT ![p] = "mark"]
    /\ UNCHANGED <<brokerVars, prodVars, procState, epoch, mainVars, goVars, sessState,
                   sessCtxDone, claimMsg, claimStop, claimPos, marked, codecVars>>

\* ConsumeClaim without session.MarkMessage: the session's mark stays
ClaimMarkNoMark(p) ==
    /\ procState = "running"
    /\ claimPc[p] = "mark"
    /\ hist' = [hist EXCEPT ![p] = Append(@, Event("mark", claimMsg[p], FALSE, NoLine))]
    /\ claimPc' = [claimPc EXCEPT ![p] = "select"]
    /\ claimStop' = [claimStop EXCEPT ![p] = FALSE]
    /\ UNCHANGED <<brokerVars, prodVars, procState, epoch, mainVars, goVars, sessState,
                   sessCtxDone, claimMsg, claimPos, marked, curLine, codecVars>>

\* ConsumeClaim: session.MarkMessage(message, ""), which moves the session's
\* mark to the next offset and commits nothing by itself
ClaimMark(p) ==
    /\ procState = "running"
    /\ claimPc[p] = "mark"
    /\ marked' = [marked EXCEPT ![p] = IF claimMsg[p] + 1 > @ THEN claimMsg[p] + 1 ELSE @]
    /\ hist' = [hist EXCEPT ![p] = Append(@, Event("mark", claimMsg[p], FALSE, NoLine))]
    /\ claimPc' = [claimPc EXCEPT ![p] = "select"]
    /\ claimStop' = [claimStop EXCEPT ![p] = FALSE]
    /\ UNCHANGED <<brokerVars, prodVars, procState, epoch, mainVars, goVars, sessState,
                   sessCtxDone, claimMsg, claimPos, curLine, codecVars>>

\* ConsumeClaim with the session context looked at before the record in hand
\* is processed: it returns with the record pulled and not rendered
ClaimReturnEarly(p) ==
    /\ procState = "running"
    /\ sessState = "running"
    /\ claimPc[p] \in {"select", "process"}
    /\ sessCtxDone
    /\ claimPc' = [claimPc EXCEPT ![p] = "returned"]
    /\ UNCHANGED <<brokerVars, prodVars, procState, epoch, mainVars, goVars, sessState,
                   sessCtxDone, claimMsg, claimStop, claimPos, marked, hist, curLine, codecVars>>

\* ConsumeClaim returns nil: case <-session.Context().Done(), or the nil
\* message of the closed channel (the client closes it once the context is done)
ClaimReturn(p) ==
    /\ procState = "running"
    /\ sessState = "running"
    /\ claimPc[p] = "select"
    /\ sessCtxDone
    /\ claimPc' = [claimPc EXCEPT ![p] = "returned"]
    /\ UNCHANGED <<brokerVars, prodVars, procState, epoch, mainVars, goVars, sessState,
                   sessCtxDone, claimMsg, claimStop, claimPos, marked, hist, curLine, codecVars>>

\* client.Consume returns nil once the session context is done and every
\* ConsumeClaim has returned: Cleanup, then the client commits the marked
\* offsets (flushed), unless the broker refuses the commit
SessionRelease(flushed) ==
    /\ procState = "running"
    /\ goPc = "consume"
    /\ sessState = "running"
    /\ sessCtxDone
    /\ \A p \in Partitions : claimPc[p] = "returned"
    /\ committed' = IF flushed THEN marked ELSE committed
    /\ consumeErr' = ""
    /\ goPc' = "returned"
    /\ sessState' = "none"
    /\ sessCtxDone' = FALSE
    /\ claimPc' = [p \in Partitions |-> "idle"]
    /\ UNCHANGED <<log, generation, prodVars, procState, epoch, mainVars, ready, closedCh, chans,
                   claimMsg, claimStop, claimPos, marked, hist, curLine, codecVars>>

ConsumeReturns == SessionRelease(TRUE)

\* the same when the broker refuses the last commit (the member has been
\* removed from the group, the coordinator cannot be reached)
ConsumeReturnsUnflushed == SessionRelease(FALSE)

\* the goroutine after client.Consume without consumer.ready = make(chan bool)
GoAfterConsumeSameChannel ==
    /\ procState = "running"
    /\ goPc = "returned"
    /\ IF consumeErr # ""
       THEN /\ goPc' = "panicking"
            /\ wg' = wg - 1
            /\ UNCHANGED <<ready, chans, sessState>>
       ELSE IF BackgroundErr # ""
       THEN /\ goPc' = "done"
            /\ wg' = wg - 1
            /\ UNCHANGED <<ready, chans, sessState>>
       ELSE /\ goPc' = "consume"
            /\ sessState' = "joining"
            /\ UNCHANGED <<ready, chans, wg>>
    /\ UNCHANGED <<brokerVars, prodVars, procState, epoch, mainPc, mainCh, notify,
                   sigterm, sigSeen, clientOpen, consumeErr, closedCh,
                   sessCtxDone, claimPc, claimMsg, claimStop, claimPos, marked, hist,
                   curLine, codecVars>>

\* the goroutine after client.Consume: log.Panicf on an error (the deferred
\* wg.Done runs while it panics), return if the background context has an
\* error, else consumer.ready = make(chan bool) and Consume again
GoAfterConsume ==
    /\ procState = "running"
    /\ goPc = "returned"
    /\ IF consumeErr # ""
       THEN /\ goPc' = "panicking"
            /\ wg' = wg - 1
            /\ UNCHANGED <<ready, chans, sessState>>
       ELSE IF BackgroundErr # ""
       THEN /\ goPc' = "done"
            /\ wg' = wg - 1
            /\ UNCHANGED <<ready, chans, sessState>>
       ELSE /\ chans' = chans + 1
            /\ ready' = chans + 1
            /\ goPc' = "consume"
            /\ sessState' = "joining"
            /\ wg' = wg
    /\ UNCHANGED <<brokerVars, prodVars, procState, epoch, mainPc, mainCh, notify,
                   sigterm, sigSeen, clientOpen, consumeErr, closedCh,
                   sessCtxDone, claimPc, claimMsg, claimStop, claimPos, marked, hist, curLine, codecVars>>

\* the panic of the goroutine, not recovered, ends the process
GoCrash ==
    /\ procState = "running"
    /\ goPc = "panicking"
    /\ Gone("panicked")
    /\ UNCHANGED <<brokerVars, prodVars, epoch, clientOpen, hist, curLine, codecVars>>

\* main: <-consumer.ready reads the field, with nothing that orders the read
\* and the goroutine's consumer.ready = make(chan bool): the read gives the
\* first channel or any that the goroutine has assigned so far ...
MainLoadReady ==
    /\ procState = "running"
    /\ mainPc = "loadReady"
    /\ \E c \in 1..chans : mainCh' = c
    /\ mainPc' = "awaitReady"
    /\ UNCHANGED <<brokerVars, prodVars, procState, epoch, notify, sigterm, sigSeen, wg,
                   clientOpen, goVars, sessVars, hist, curLine, codecVars>>

\* main going on without the receive from consumer.ready
MainAwaitReadyNoWait ==
    /\ procState = "running"
    /\ mainPc = "awaitReady"
    /\ notify' = TRUE
    /\ mainPc' = "awaitSig"
    /\ UNCHANGED <<brokerVars, prodVars, procState, epoch, mainCh, sigterm, sigSeen, wg,
                   clientOpen, goVars, sessVars, hist, curLine, codecVars>>

\* ... and receives from that channel once it is closed; then the start is
\* logged and signal.Notify(sigterm, SIGINT, SIGTERM) is put in place
MainAwaitReady ==
    /\ procState = "running"
    /\ mainPc = "awaitReady"
    /\ mainCh \in closedCh
    /\ notify' = TRUE
    /\ mainPc' = "awaitSig"
    /\ UNCHANGED <<brokerVars, prodVars, procState, epoch, mainCh, sigterm, sigSeen, wg,
                   clientOpen, goVars, sessVars, hist, curLine, codecVars>>

\* main: <-sigterm, log "Terminating Consumer..."
MainAwaitSig ==
    /\ procState = "running"
    /\ mainPc = "awaitSig"
    /\ sigterm = 1
    /\ sigterm' = 0
    /\ sigSeen' = TRUE
    /\ mainPc' = "wgWait"
    /\ UNCHANGED <<brokerVars, prodVars, procState, epoch, mainCh, notify, wg,
                   clientOpen, goVars, sessVars, hist, curLine, codecVars>>

\* main: wg.Wait()
MainWgWait ==
    /\ procState = "running"
    /\ mainPc = "wgWait"
    /\ wg = 0
    /\ mainPc' = "close"
    /\ UNCHANGED <<brokerVars, prodVars, procState, epoch, mainCh, notify, sigterm,
                   sigSeen, wg, clientOpen, goVars, sessVars, hist, curLine, codecVars>>

\* main: client.Close(), log.Panicf if it fails, and the end of main
MainClose ==
    /\ procState = "running"
    /\ mainPc = "close"
    /\ clientOpen' = FALSE
    /\ \E closeErr \in BOOLEAN : Gone(IF closeErr THEN "panicked" ELSE "exited")
    /\ UNCHANGED <<brokerVars, prodVars, epoch, hist, curLine, codecVars>>

\* SIGINT or SIGTERM reaches the consumer: buffered in sigterm (one place)
\* once Notify is in place, the end of the process before that
Interrupt ==
    /\ procState = "running"
    /\ IF notify
       THEN /\ sigterm' = 1
            /\ UNCHANGED <<procState, mainPc, mainCh, notify, sigSeen, wg, goVars, sessVars>>
       ELSE Gone("killed")
    /\ UNCHANGED <<brokerVars, prodVars, epoch, clientOpen, hist, curLine, codecVars>>

\* the process is killed or its machine fails
Kill ==
    /\ procState = "running"
    /\ Gone("killed")
    /\ UNCHANGED <<brokerVars, prodVars, epoch, clientOpen, hist, curLine, codecVars>>

\* the consumer is started again, in the same consumer group
Restart ==
    /\ procState # "running"
    /\ epoch < MaxRestarts
    /\ epoch' = epoch + 1
    /\ Started
    /\ UNCHANGED <<brokerVars, prodVars, hist, curLine, codecVars>>

\* the consumer as main leaves it when it has started the goroutine
ConsumerStarted ==
    /\ procState = "running"
    /\ epoch = 0
    /\ mainPc = "loadReady"
    /\ mainCh = 0
    /\ notify = FALSE
    /\ sigterm = 0
    /\ sigSeen = FALSE
    /\ wg = 1
    /\ clientOpen = TRUE
    /\ goPc = "consume"
    /\ consumeErr = ""
    /\ ready = 1
    /\ closedCh = {}
    /\ chans = 1
    /\ sessState = "joining"
    /\ sessCtxDone = FALSE
    /\ claimPc = [p \in Partitions |-> "idle"]
    /\ claimMsg = [p \in Partitions |-> 0]
    /\ claimStop = [p \in Partitions |-> FALSE]
    /\ claimPos = [p \in Partitions |-> 0]
    /\ marked = [p \in Partitions |-> 0]
    /\ hist = [p \in Partitions |-> <<>>]
    /\ curLine = <<>>

\* the producers in their loops, each with the application it drew
ProducersStarted ==
    /\ appName \in [Producers -> AppNames]
    /\ prodPc = [i \in Producers |-> "loop"]
    /\ prodMsg = [i \in Producers |-> <<>>]
    /\ prodClosed = [i \in Producers |-> FALSE]
    /\ sigChan = [i \in Producers |-> 0]
    /\ ticks = [i \in Producers |-> 0]
    /\ prodOut = [i \in Producers |-> <<>>]

\* no producer runs
ProducersIdle ==
    /\ appName = [i \in Producers |-> appNames[1]]
    /\ prodPc = [i \in Producers |-> "exited"]
    /\ prodMsg = [i \in Producers |-> <<>>]
    /\ prodClosed = [i \in Producers |-> TRUE]
    /\ sigChan = [i \in Producers |-> 0]
    /\ ticks = [i \in Producers |-> 0]
    /\ prodOut = [i \in Producers |-> <<>>]

\* producers and a consumer start on an empty topic
PipeInit ==
    /\ log = [p \in Partitions |-> <<>>]
    /\ committed = [p \in Partitions |-> 0]
    /\ generation = 0
    /\ ProducersStarted
    /\ ConsumerStarted

\* a consumer starts on a topic that holds records already
ConsumerInit ==
    /\ log \in InitialLogs
    /\ committed = [p \in Partitions |-> 0]
    /\ generation = 0
    /\ ProducersIdle
    /\ ConsumerStarted
    /\ CodecIdle

Init == PipeInit /\ CodecIdle

ProducerNext ==
    \E i \in Producers :
        ProducerTick(i) \/ ProducerSent(i) \/ ProducerInterrupt(i) \/ ProducerShutdown(i)

\* the consumer: sessions, claims, the goroutine and main up to its wait
SessionNext ==
    \/ Setup \/ ConsumeFails \/ SessionEnd \/ AutoCommit
    \/ \E p \in Partitions : ClaimPull(p) \/ ClaimProcess(p) \/ ClaimPrintAt(p) \/ ClaimPrintln(p)
                           \/ ClaimMark(p) \/ ClaimReturn(p)
    \/ ConsumeReturns \/ GoAfterConsume \/ GoCrash
    \/ MainLoadReady \/ MainAwaitReady

\* the consumer: the shutdown signal and what main does with it
ShutdownNext == Interrupt \/ MainAwaitSig \/ MainWgWait \/ MainClose

\* producers and one consumer, from an empty topic
Next ==
    \/ \E i \in Producers : ProducerTick(i) \/ ProducerSent(i)
    \/ SessionNext
    \/ ShutdownNext

Spec == Init /\ [][Next]_vars

\* one consumer on a topic that other clients write too
ConsumerNext == SessionNext \/ ShutdownNext \/ ForeignPublish

ConsumerSpec == ConsumerInit /\ [][ConsumerNext]_vars

\* the same consumer when its goroutines are scheduled and the client
\* calls Setup for a session it has joined
ConsumerFairSpec ==
    /\ ConsumerSpec
    /\ WF_vars(Setup)
    /\ WF_vars(GoAfterConsume)
    /\ WF_vars(GoCrash)
    /\ WF_vars(MainLoadReady)
    /\ WF_vars(MainAwaitReady)

\* the same consumer when its process can be killed and started again, and
\* the broker can refuse a commit
RestartNext == SessionNext \/ ForeignPublish \/ ConsumeReturnsUnflushed \/ Kill \/ Restart

RestartSpec == ConsumerInit /\ [][RestartNext]_vars

\* the producers on their own
ConsumerIdle ==
    /\ procState = "exited"
    /\ epoch = 0
    /\ mainPc = "done"
    /\ mainCh = 0
    /\ notify = FALSE
    /\ sigterm = 0
    /\ sigSeen = FALSE
    /\ wg = 0
    /\ clientOpen = FALSE
    /\ goPc = "done"
    /\ consumeErr = ""
    /\ ready = 0
    /\ closedCh = {}
    /\ chans = 0
    /\ sessState = "none"
    /\ sessCtxDone = FALSE
    /\ claimPc = [p \in Partitions |-> "idle"]
    /\ claimMsg = [p \in Partitions |-> 0]
    /\ claimStop = [p \in Partitions |-> FALSE]
    /\ claimPos = [p \in Partitions |-> 0]
    /\ marked = [p \in Partitions |-> 0]
    /\ hist = [p \in Partitions |-> <<>>]
    /\ curLine = <<>>

ProducerInit ==
    /\ log = [p \in Partitions |-> <<>>]
    /\ committed = [p \in Partitions |-> 0]
    /\ generation = 0
    /\ ProducersStarted
    /\ ConsumerIdle
    /\ CodecIdle

ProducerSpec == ProducerInit /\ [][ProducerNext]_vars

\* the producers when the select in main is fair to the signal case and the
\* client answers every SendMessage
ProducerFairSpec ==
    /\ ProducerSpec
    /\ \A i \in Producers : SF_vars(ProducerShutdown(i)) /\ WF_vars(ProducerSent(i))

\* the pipeline stands still while the codec is looked at on its own
PipeIdle ==
    /\ log = [p \in Partitions |-> <<>>]
    /\ committed = [p \in Partitions |-> 0]
    /\ generation = 0
    /\ ProducersIdle
    /\ ConsumerIdle

\* an entry is about to be serialized; nothing else runs
CodecInit == CodecStart /\ PipeIdle

CodecNext == Serialize \/ Truncate \/ DropField \/ SetLevel \/ Deserialize

CodecSpec == CodecInit /\ [][CodecNext]_vars

\* generateLogEntry is about to be called; nothing else runs
GeneratorInit ==
    /\ cPc = "generate"
    /\ cEntry = ZeroEntry
    /\ cData = <<>>
    /\ cTamper = "none"
    /\ cResult = [entry |-> ZeroEntry, err |-> ""]
    /\ PipeIdle

GeneratorNext == Generate \/ Serialize \/ Deserialize

GeneratorSpec == GeneratorInit /\ [][GeneratorNext]_vars

(***************************************************************************)
(* Properties.                                                             *)
(***************************************************************************)
IsRender(e) == e.ev = "render"
\* the lines rendered for partition p, in the order they were printed
Rendered(p) == SelectSeq(hist[p], IsRender)
\* FromJson fails on the record at offset off of partition p
Malformed(p, off) == FromJson(log[p][off + 1].value).err # ""
\* nothing is in hand in partition p: every record pulled has been
\* rendered or reported, and marked
NothingInHand(p) ==
    /\ Len(hist[p]) > 0 => hist[p][Len(hist[p])].ev = "mark"
    /\ \A i \in 1..Len(hist[p]) :
          /\ hist[p][i].ev = "pull" =>
                /\ i + 2 <= Len(hist[p])
                /\ hist[p][i + 1].ev \in {"render", "error"}
                /\ hist[p][i + 1].off = hist[p][i].off
                /\ hist[p][i + 2].ev = "mark"
                /\ hist[p][i + 2].off = hist[p][i].off

\* what the consumer and its client do without any event from outside
ConsumerStep ==
    \/ Setup \/ AutoCommit \/ ConsumeReturns \/ GoAfterConsume \/ GoCrash
    \/ \E p \in Partitions : ClaimPull(p) \/ ClaimProcess(p) \/ ClaimPrintAt(p) \/ ClaimPrintln(p)
                           \/ ClaimMark(p) \/ ClaimReturn(p)
    \/ MainLoadReady \/ MainAwaitReady \/ MainAwaitSig \/ MainWgWait \/ MainClose

\* C1: once main has received the interrupt, the consumer goes on to stop:
\* while the process runs in a session it is never left with nothing that it
\* or its client would do next (the goroutine returning, wg.Wait returning,
\* client.Close) without an event from outside.
C1_ShutdownTerminates ==
    (sigSeen /\ procState = "running" /\ sessState = "running") => ENABLED ConsumerStep

\* C2: after main has received the shutdown signal, no record is pulled that
\* had not been pulled before.
C2_NoPullAfterSignal ==
    [][sigSeen =>
          \A p \in Partitions :
              Len(hist'[p]) > Len(hist[p]) => hist'[p][Len(hist'[p])].ev # "pull"]_vars

\* C3: a record that ConsumeClaim has received is rendered (or reported as
\* malformed) and marked before ConsumeClaim returns and before the process
\* ends by itself, also when the shutdown signal or the cancellation of the
\* session comes while the record is in hand.
C3_InFlightRendered ==
    \A p \in Partitions :
        /\ (procState = "running" /\ claimPc[p] \in {"select", "returned"}) =>
               NothingInHand(p) /\ marked[p] = claimPos[p]
        /\ procState \in {"exited", "panicked"} => NothingInHand(p)

\* C3 happens: a record was pulled, the shutdown began, the record was
\* rendered and marked, and ConsumeClaim has returned
C3_Witness ==
    \E p \in Partitions :
        /\ procState = "running"
        /\ claimPc[p] = "returned"
        /\ \E i \in 1..Len(hist[p]) :
              /\ hist[p][i].ev = "render"
              /\ hist[p][i].late
              /\ i < Len(hist[p])
              /\ hist[p][i + 1].ev = "mark"

\* C4: whenever client.Consume has returned, with an error or without, the
\* goroutine calls Consume again with a fresh ready channel and the process
\* keeps running.
C4_SessionErrorRejoins ==
    [][(goPc = "returned" /\ goPc' # "returned" /\ procState' # "killed") =>
          /\ procState' = "running"
          /\ goPc' = "consume"
          /\ sessState' = "joining"
          /\ ready' # ready
          /\ ready' \notin closedCh']_vars

\* C5: a record whose value fails deserialization is never rendered; an
\* error line is printed for it, it is marked all the same, the process keeps
\* running, and the record is not pulled a second time.
C5_MalformedSkipped ==
    \A p \in Partitions :
        \A i \in 1..Len(hist[p]) :
            LET e == hist[p][i] IN
            /\ e.ev = "render" => ~Malformed(p, e.off)
            /\ (e.ev = "pull" /\ Malformed(p, e.off)) =>
                  /\ i = Len(hist[p]) =>
                        \/ procState = "running" /\ claimPc[p] = "process"
                        \/ procState = "killed"
                  /\ i < Len(hist[p]) =>
                        hist[p][i + 1].ev = "error" /\ hist[p][i + 1].off = e.off
                  /\ i + 1 = Len(hist[p]) =>
                        \/ procState = "running" /\ claimPc[p] = "mark"
                        \/ procState = "killed"
                  /\ i + 1 < Len(hist[p]) =>
                        hist[p][i + 2].ev = "mark" /\ hist[p][i + 2].off = e.off
                  /\ \A j \in 1..Len(hist[p]) :
                        (hist[p][j].ev = "pull" /\ hist[p][j].off = e.off) => j = i

\* C5 happens: a malformed record was reported and marked, and the next
\* record of the partition was pulled and rendered
C5_Witness ==
    \E p \in Partitions :
        /\ Len(hist[p]) >= 5
        /\ hist[p][1].ev = "pull" /\ Malformed(p, hist[p][1].off)
        /\ hist[p][2].ev = "error"
        /\ hist[p][3].ev = "mark"
        /\ hist[p][4].ev = "pull" /\ hist[p][4].off = hist[p][1].off + 1
        /\ hist[p][5].ev = "render"

\* C6: a well-formed record whose level is none of DEBUG, INFO, WARN, ERROR,
\* FATAL makes FromJson return an error.
C6_UnknownLevelRejected ==
    (cPc = "decoded" /\ cTamper = "unknownLevel") => cResult.err # ""

\* C7: a truncated record, and a record that lacks one of the four fields,
\* make FromJson return an error.
C7_TruncatedOrMissingRejected ==
    (cPc = "decoded" /\ cTamper \in {"truncated", "fieldMissing"}) => cResult.err # ""

RoundTrips(e) ==
    /\ ValidUTF8(e.Application)
    /\ ValidUTF8(e.Message)
    /\ e.Timestamp.year >= 0
    /\ e.Timestamp.year <= 9999

C10_NoRedeliveryAfterRestart ==
    \A p \in Partitions :
        \A i, j \in 1..Len(hist[p]) :
            ~ /\ i < j
              /\ hist[p][i].ev = "mark"
              /\ hist[p][j].ev = "render"
              /\ hist[p][j].off = hist[p][i].off
              /\ hist[p][j].ep > hist[p][i].ep

\* C11: the output of one displayLog call is never interleaved with the
\* output of a displayLog call for another partition: when a displayLog call
\* ends its line, the line holds no write of another partition's call.
C11_RenderAtomic ==
    [][\A p \in Partitions :
          (/\ Len(hist'[p]) > Len(hist[p])
           /\ hist'[p][Len(hist'[p])].ev = "render") =>
              \A k \in 1..Len(curLine) : curLine[k].p = p]_vars

\* C12: the key of every message a producer sends is the application name in
\* the serialized entry of that message, and every message of one producer
\* has the name the producer was started with as its key.
C12_PartitionAffinity ==
    /\ \A p \in Partitions : \A n \in 1..Len(log[p]) :
          LET r == FromJson(log[p][n].value) IN
          /\ r.err = ""
          /\ log[p][n].key = r.entry.Application
    /\ \A i \in Producers :
          /\ prodMsg[i] # <<>> => prodMsg[i][1].Application = appName[i]
          /\ \A k \in 1..Len(prodOut[i]) :
                prodOut[i][k].kind = "sent" =>
                    /\ prodOut[i][k].o < Len(log[prodOut[i][k].p])
                    /\ log[prodOut[i][k].p][prodOut[i][k].o + 1].key = appName[i]

\* C12 happens: one producer has sent two messages
C12_Witness ==
    \E i \in Producers :
        /\ Len(prodOut[i]) = 2
        /\ prodOut[i][1].kind = "sent"
        /\ prodOut[i][2].kind = "sent"
        /\ prodOut[i][1].level # prodOut[i][2].level

IsSent(l) == l.kind = "sent"
IsTickLine(l) == l.kind # "shutdown"
\* the "Sent" lines of all producers together
RECURSIVE SentCount(_)
SentCount(S) ==
    IF S = {} THEN 0
    ELSE LET i == CHOOSE j \in S : TRUE IN
         Len(SelectSeq(prodOut[i], IsSent)) + SentCount(S \ {i})

\* C13: when SendMessage fails, the producer prints an error line, sends
\* nothing for that tick (the topic holds exactly the records reported as
\* sent), stays in its loop with its client open, and takes the next tick.
C13_DeliveryErrorContinues ==
    /\ TotalRecords = SentCount(Producers)
    /\ \A i \in Producers :
          /\ Len(SelectSeq(prodOut[i], IsTickLine)) =
                ticks[i] - (IF prodPc[i] = "sending" THEN 1 ELSE 0)
          /\ prodPc[i] = "exited" => prodOut[i][Len(prodOut[i])].kind = "shutdown"
          /\ (Len(prodOut[i]) > 0 /\ prodOut[i][Len(prodOut[i])].kind = "sendError") =>
                /\ prodPc[i] \in {"loop", "sending"}
                /\ ~prodClosed[i]
                /\ prodPc[i] = "loop" =>
                      /\ prodMsg[i] = <<>>
                      /\ TotalTicks < MaxTicks => ENABLED ProducerTick(i)

\* C13 happens: a producer's publish failed and its next tick was published
C13_Witness ==
    \E i \in Producers :
        /\ Len(prodOut[i]) = 2
        /\ prodOut[i][1].kind = "sendError"
        /\ prodOut[i][2].kind = "sent"

\* a producer that has exited did so properly: nothing is with SendMessage,
\* the client is closed, and the shutdown line is its last and only one
ExitedCleanly(i) ==
    /\ prodMsg[i] = <<>>
    /\ prodClosed[i]
    /\ Len(prodOut[i]) > 0
    /\ \A k \in 1..Len(prodOut[i]) :
          prodOut[i][k].kind = "shutdown" <=> k = Len(prodOut[i])

\* C14: after an interrupt is delivered to a producer, the producer exits;
\* when it exits, the publish that was in progress has returned, nothing was
\* published after the shutdown line, and the client has been closed.
C14_ProducerGracefulShutdown ==
    /\ [](\A i \in Producers :
            /\ prodPc[i] = "exited" => ExitedCleanly(i)
            /\ prodClosed[i] => prodPc[i] = "exited")
    /\ \A i \in Producers : (sigChan[i] = 1) ~> (prodPc[i] = "exited")

\* C14 happens: the interrupt came while a publish was in progress, the
\* publish completed, and the producer has exited
C14_Witness ==
    \E i \in Producers :
        /\ prodPc[i] = "exited"
        /\ Len(prodOut[i]) = 2
        /\ prodOut[i][1].kind = "sent"
        /\ prodOut[i][1].late
        /\ prodOut[i][2].kind = "shutdown"

\* the message pool of a level
InPool(msg, pool) == \E k \in 1..Len(pool) : pool[k] = msg
PoolMessage(level, msg) ==
    \/ level = INFO /\ InPool(msg, infoMessages)
    \/ level = WARN /\ InPool(msg, warnMessages)
    \/ level = ERROR /\ InPool(msg, errorMessages)
    \/ level = DEBUG /\ msg = GoStr("debug trace information")

\* C15: every entry generateLogEntry produces has one of the levels INFO,
\* WARN, ERROR, DEBUG, never FATAL, and a message of the pool of its level;
\* it is so still after ToJson and FromJson.
C15_GeneratorLevelPolicy ==
    /\ cPc \in {"entry", "wire", "decoded"} =>
          /\ cEntry.Level \in {INFO, WARN, ERROR, DEBUG}
          /\ cEntry.Level # FATAL
          /\ PoolMessage(cEntry.Level, cEntry.Message)
    /\ cPc = "decoded" =>
          /\ cResult.err = ""
          /\ cResult.entry.Level = cEntry.Level
          /\ cResult.entry.Message = cEntry.Message
    /\ cPc # "marshalErr"

\* C15 happens: the default case of the switch produced a DEBUG entry, and
\* the entry has been serialized and read back
C15_Witness ==
    /\ cPc = "decoded"
    /\ cEntry.Level = DEBUG
    /\ cResult.entry.Message = GoStr("debug trace information")

\* C16: no error outcome after startup terminates the process: the consumer
\* is never ended by a panic.
C16_ErrorsNotFatal == procState # "panicked"

\* main is in its wait for the ready channel
MainWaits == procState = "running" /\ mainPc \in {"loadReady", "awaitReady"}

\* C17: main leaves its wait on the ready channel only after Setup has closed
\* the channel it waits on, it never waits on a channel that no Setup will
\* close, and once it waits on a channel that is closed or that the session
\* being joined will close, it leaves the wait (or the process ends).
C17_ReadyGating ==
    /\ [](procState = "running" =>
            /\ mainPc \in {"awaitSig", "wgWait", "close"} =>
                  mainCh \in closedCh /\ generation >= 1
            /\ notify => mainCh \in closedCh
            /\ mainPc = "awaitReady" =>
                  \/ mainCh \in closedCh
                  \/ mainCh = ready /\ (sessState = "joining" \/ consumeErr # ""))
    /\ (MainWaits /\ mainPc = "awaitReady" /\ (mainCh \in closedCh \/ generation < MaxSessions))
          ~> ~MainWaits

\* C17 happens: the first Consume call returned before main read the channel,
\* main waited on the channel of the rejoin and left when the second session
\* had completed Setup
C17_Witness ==
    /\ procState = "running"
    /\ mainPc = "awaitSig"
    /\ mainCh = 2
    /\ generation = 2

\* C18: in each partition every record received is marked once, after
\* proccessLogMessage has returned for it and before the next record is
\* received; no record is marked that was not processed, and the marks come
\* in the order of the pulls.
C18_MarkFollowsProcessing ==
    \A p \in Partitions :
        /\ \A i \in 1..Len(hist[p]) :
              LET e == hist[p][i] IN
              /\ e.ev = "mark" =>
                    /\ i >= 3
                    /\ hist[p][i - 1].ev \in {"render", "error"}
                    /\ hist[p][i - 1].off = e.off
                    /\ hist[p][i - 2].ev = "pull"
                    /\ hist[p][i - 2].off = e.off
              /\ e.ev \in {"render", "error"} =>
                    /\ i >= 2
                    /\ hist[p][i - 1].ev = "pull"
                    /\ hist[p][i - 1].off = e.off
              /\ (e.ev = "pull" /\ i > 1) =>
                    /\ hist[p][i - 1].ev = "mark"
                    /\ hist[p][i - 1].off < e.off
        /\ procState = "running" =>
              /\ claimPc[p] \in {"process", "printAt", "println", "mark"} =>
                    marked[p] <= claimMsg[p]
              /\ claimPc[p] \in {"select", "returned"} => marked[p] = claimPos[p]

\* C18 happens: two records of a partition were received, processed and
\* marked one after the other
C18_Witness ==
    \E p \in Partitions :
        /\ Len(hist[p]) = 6
        /\ hist[p][3].ev = "mark" /\ hist[p][3].off = 0
        /\ hist[p][4].ev = "pull" /\ hist[p][4].off = 1
        /\ hist[p][6].ev = "mark" /\ hist[p][6].off = 1
        /\ marked[p] = 2

\* C19: over any sequence of sessions and rejoins the channel that the next
\* Setup closes is open, every Setup has closed a channel of its own, and so
\* Setup never closes a closed channel.
C19_ReadyClosedOnce ==
    procState = "running" =>
        /\ (goPc = "consume" /\ sessState = "joining") => ready \notin closedCh
        /\ Cardinality(closedCh) = generation
        /\ closedCh \subseteq 1..chans
        /\ ready = chans

\* C19 happens: a second session has completed Setup on the channel that
\* replaced the first
C19_Witness ==
    /\ procState = "running"
    /\ generation = 2
    /\ closedCh = {1, 2}
    /\ ready = 2

\* C20: main's read of consumer.ready for its startup wait and the
\* goroutine's assignment to consumer.ready after client.Consume has returned
\* are never both about to happen.
C20_NoReadyRace ==
    ~ /\ procState = "running"
      /\ mainPc = "loadReady"
      /\ goPc = "returned"
      /\ consumeErr = ""
      /\ BackgroundErr = ""

====
